---- MODULE Spec2Model ----
(***************************************************************************)
(* The fmrisim multivariate example notebook                               *)
(* (examples/utils/fmrisim_multivariate_example.ipynb) as a state machine. *)
(*                                                                         *)
(* Spec       one "run all" of the code cells, top to bottom.  The state   *)
(*            is the kernel's namespace, the modules it has loaded, and    *)
(*            the sizes and time indices of the arrays the cells build.    *)
(*            Voxel values are not tracked in this specification.          *)
(* SpecROI    the ROI bounds and slice of cell 4.1 over small volumes.     *)
(* SpecEffect the effect-size loop of cell 2.2 over small volumes.         *)
(*                                                                         *)
(* Python floats are modelled as exact rationals <<n, d>> with d > 0.      *)
(***************************************************************************)
EXTENDS Integers, Sequences, FiniteSets, TLC

VARIABLES
    pc,             \* number of the next code cell to execute (1-based)
    fault,          \* "none", or the exception that stopped the run
    ns,             \* names bound in the kernel's namespace
    loaded,         \* modules present in sys.modules
    nii,            \* the loaded scan: [shape, zoomT]
    dim,            \* volume.shape, <<x, y, z, t>>
    tr,             \* repetition time in seconds (rational)
    coordinates,    \* centre of the signal cube, <<x, y, z>>
    feature_size,   \* edge length of the signal cube
    voxels,         \* feature_size ** 3
    total_time,     \* length of the run in seconds
    events,         \* number of events
    onsets_all,     \* event onsets in seconds (sequence of rationals)
    onsets_A,       \* onsets of condition A
    onsets_B,       \* onsets of condition B
    weightsRows,    \* rows (time points) of weights_all
    signalT,        \* time points of signal_func / signal
    noiseT,         \* time points of noise
    brainT,         \* time points of brain
    lb,             \* lower ROI bounds, <<x, y, z>>
    ub,             \* upper ROI bounds, <<x, y, z>>
    idx_A,          \* time indices taken for the trials of condition A
    idx_B,          \* time indices taken for the trials of condition B
    trialsShape_A,  \* <<voxels in the ROI slice, trials>> of trials_A
    signal_volume,  \* SpecEffect: voxel -> 0 or 1
    template,       \* SpecEffect: voxel -> mean activity (rational)
    noise_dict,     \* SpecEffect: [max_activity, sfnr]
    signal_idxs,    \* SpecEffect: np.where(signal_volume == 1)
    signal_change,  \* SpecEffect: one rational per row
    idx_counter     \* SpecEffect: loop variable of cell 2.2

vars == <<pc, fault, ns, loaded, nii, dim, tr, coordinates, feature_size,
          voxels, total_time, events, onsets_all, onsets_A, onsets_B,
          weightsRows, signalT, noiseT, brainT, lb, ub, idx_A, idx_B,
          trialsShape_A, signal_volume, template, noise_dict, signal_idxs,
          signal_change, idx_counter>>

effectVars == <<signal_volume, template, noise_dict, signal_idxs,
                signal_change, idx_counter>>
roiVars == <<lb, ub, idx_A, idx_B, trialsShape_A>>
eventVars == <<total_time, events, onsets_all, onsets_A, onsets_B>>
lengthVars == <<weightsRows, signalT, noiseT, brainT>>

(***************************************************************************)
(* Bounds                                                                  *)
(***************************************************************************)
MaxVols == 18        \* largest number of volumes in the input scan
MaxDim == 6          \* SpecROI: largest axis length
MaxFeature == 4      \* SpecROI: largest feature_size
MaxTrials == 1       \* SpecROI: largest number of trials
MaxGridZ == 1        \* SpecEffect: the volume is 2 x 2 x MaxGridZ voxels

(***************************************************************************)
(* Exact rational arithmetic standing in for Python floats                 *)
(***************************************************************************)
RECURSIVE GCD(_, _)
GCD(a, b) == IF b = 0 THEN a ELSE GCD(b, a % b)

Abs(n) == IF n < 0 THEN -n ELSE n

Rat(n, d) ==
    LET s == IF d < 0 THEN -1 ELSE 1
        g == GCD(Abs(n), Abs(d))
    IN  <<(s * n) \div g, (s * d) \div g>>

RatInt(n) == <<n, 1>>
RatAdd(a, b) == Rat(a[1] * b[2] + b[1] * a[2], a[2] * b[2])
RatSub(a, b) == Rat(a[1] * b[2] - b[1] * a[2], a[2] * b[2])
RatMul(a, b) == Rat(a[1] * b[1], a[2] * b[2])
RatDiv(a, b) == Rat(a[1] * b[2], a[2] * b[1])
RatLeq(a, b) == a[1] * b[2] <= b[1] * a[2]
RatLess(a, b) == a[1] * b[2] < b[1] * a[2]

\* Python int(): truncation toward zero.
TruncDiv(n, d) == IF n >= 0 THEN n \div d ELSE -((-n) \div d)
PyInt(a) == TruncDiv(a[1], a[2])

Min(a, b) == IF a < b THEN a ELSE b
Max(a, b) == IF a < b THEN b ELSE a

(***************************************************************************)
(* The code cells as statements: names read (r), names bound (w),          *)
(* submodules reached through an attribute of a package (m), modules       *)
(* imported (imp).  Builtins are always bound and are not listed.          *)
(***************************************************************************)
Cells == <<
  \* code cell 1, lines 58-69
  <<
     [r |-> {}, w |-> {"Path"}, m |-> {}, imp |-> {"pathlib"}],
     [r |-> {}, w |-> {"fmrisim"}, m |-> {}, imp |-> {"brainiak.utils.fmrisim"}],
     [r |-> {}, w |-> {"nibabel"}, m |-> {}, imp |-> {"nibabel"}],
     [r |-> {}, w |-> {"np"}, m |-> {}, imp |-> {"numpy"}],
     [r |-> {}, w |-> {"plt"}, m |-> {}, imp |-> {"matplotlib.pyplot"}],
     [r |-> {}, w |-> {"sp_distance"}, m |-> {}, imp |-> {"scipy.spatial.distance"}],
     [r |-> {}, w |-> {"manifold"}, m |-> {}, imp |-> {"sklearn.manifold"}],
     [r |-> {}, w |-> {"stats"}, m |-> {}, imp |-> {"scipy.stats"}],
     [r |-> {}, w |-> {"sklearn"}, m |-> {}, imp |-> {"sklearn.model_selection"}],
     [r |-> {}, w |-> {"sklearn"}, m |-> {}, imp |-> {"sklearn.svm"}]
  >>,
  \* code cell 2, lines 89-91
  <<
     [r |-> {"Path"}, w |-> {"home"}, m |-> {}, imp |-> {}],
     [r |-> {"home", "nibabel"}, w |-> {"nii"}, m |-> {}, imp |-> {}],
     [r |-> {"nii"}, w |-> {"volume"}, m |-> {}, imp |-> {}]
  >>,
  \* code cell 3, lines 111-116
  <<
     [r |-> {"volume"}, w |-> {"dim"}, m |-> {}, imp |-> {}],
     [r |-> {"nii"}, w |-> {"dimsize"}, m |-> {}, imp |-> {}],
     [r |-> {"dimsize"}, w |-> {"tr"}, m |-> {}, imp |-> {}],
     [r |-> {"tr"}, w |-> {}, m |-> {}, imp |-> {}],
     [r |-> {"tr"}, w |-> {"tr"}, m |-> {}, imp |-> {}],
     [r |-> {"dim"}, w |-> {}, m |-> {}, imp |-> {}]
  >>,
  \* code cell 4, lines 136-138
  <<
     [r |-> {"fmrisim", "volume"}, w |-> {"mask", "template"}, m |-> {}, imp |-> {}]
  >>,
  \* code cell 5, lines 162-166
  <<
     [r |-> {"dimsize"}, w |-> {"noise_dict"}, m |-> {}, imp |-> {}],
     [r |-> {"fmrisim", "mask", "noise_dict", "volume"}, w |-> {"noise_dict"}, m |-> {}, imp |-> {}]
  >>,
  \* code cell 6, lines 175-178
  <<
     [r |-> {}, w |-> {}, m |-> {}, imp |-> {}],
     [r |-> {"noise_dict"}, w |-> {}, m |-> {}, imp |-> {}],
     [r |-> {"noise_dict"}, w |-> {}, m |-> {}, imp |-> {}],
     [r |-> {"noise_dict"}, w |-> {}, m |-> {}, imp |-> {}]
  >>,
  \* code cell 7, lines 207-214
  <<
     [r |-> {"np"}, w |-> {"coordinates"}, m |-> {}, imp |-> {}],
     [r |-> {}, w |-> {"feature_size"}, m |-> {}, imp |-> {}],
     [r |-> {"coordinates", "dim", "feature_size", "fmrisim"}, w |-> {"signal_volume"}, m |-> {}, imp |-> {}]
  >>,
  \* code cell 8, lines 223-226
  <<
     [r |-> {"plt"}, w |-> {}, m |-> {}, imp |-> {}],
     [r |-> {"plt", "signal_volume"}, w |-> {}, m |-> {}, imp |-> {}],
     [r |-> {"mask", "plt"}, w |-> {}, m |-> {}, imp |-> {}],
     [r |-> {"plt"}, w |-> {}, m |-> {}, imp |-> {}]
  >>,
  \* code cell 9, lines 246-256
  <<
     [r |-> {}, w |-> {"effect_size"}, m |-> {}, imp |-> {}],
     [r |-> {"noise_dict", "template"}, w |-> {"temporal_sd"}, m |-> {}, imp |-> {}],
     [r |-> {"np", "signal_volume"}, w |-> {"signal_idxs"}, m |-> {}, imp |-> {}],
     [r |-> {"np", "signal_volume"}, w |-> {"signal_change"}, m |-> {}, imp |-> {}],
     [r |-> {"signal_volume"}, w |-> {"idx_counter"}, m |-> {}, imp |-> {}],
     [r |-> {"idx_counter", "signal_idxs"}, w |-> {"x"}, m |-> {}, imp |-> {}],
     [r |-> {"idx_counter", "signal_idxs"}, w |-> {"y"}, m |-> {}, imp |-> {}],
     [r |-> {"idx_counter", "signal_idxs"}, w |-> {"z"}, m |-> {}, imp |-> {}],
     [r |-> {"effect_size", "idx_counter", "signal_change", "temporal_sd", "x", "y", "z"}, w |-> {}, m |-> {}, imp |-> {}]
  >>,
  \* code cell 10, lines 276-278
  <<
     [r |-> {"feature_size"}, w |-> {"voxels"}, m |-> {}, imp |-> {}],
     [r |-> {"np", "signal_change", "voxels"}, w |-> {"pattern_A"}, m |-> {"numpy.random"}, imp |-> {}],
     [r |-> {"np", "signal_change", "voxels"}, w |-> {"pattern_B"}, m |-> {"numpy.random"}, imp |-> {}]
  >>,
  \* code cell 11, lines 287-296
  <<
     [r |-> {"plt"}, w |-> {}, m |-> {}, imp |-> {}],
     [r |-> {"plt"}, w |-> {}, m |-> {}, imp |-> {}],
     [r |-> {"pattern_A", "plt"}, w |-> {}, m |-> {}, imp |-> {}],
     [r |-> {"plt"}, w |-> {}, m |-> {}, imp |-> {}],
     [r |-> {"plt"}, w |-> {}, m |-> {}, imp |-> {}],
     [r |-> {"plt"}, w |-> {}, m |-> {}, imp |-> {}],
     [r |-> {"plt"}, w |-> {}, m |-> {}, imp |-> {}],
     [r |-> {"pattern_B", "plt"}, w |-> {}, m |-> {}, imp |-> {}],
     [r |-> {"plt"}, w |-> {}, m |-> {}, imp |-> {}],
     [r |-> {"plt"}, w |-> {}, m |-> {}, imp |-> {}]
  >>,
  \* code cell 12, lines 316-336
  <<
     [r |-> {}, w |-> {"event_duration"}, m |-> {}, imp |-> {}],
     [r |-> {}, w |-> {"isi"}, m |-> {}, imp |-> {}],
     [r |-> {}, w |-> {"burn_in"}, m |-> {}, imp |-> {}],
     [r |-> {"burn_in", "dim", "tr"}, w |-> {"total_time"}, m |-> {}, imp |-> {}],
     [r |-> {"event_duration", "isi", "total_time"}, w |-> {"events"}, m |-> {}, imp |-> {}],
     [r |-> {"burn_in", "event_duration", "events", "isi", "np"}, w |-> {"onsets_all"}, m |-> {}, imp |-> {}],
     [r |-> {"np", "onsets_all"}, w |-> {}, m |-> {"numpy.random"}, imp |-> {}],
     [r |-> {"events", "onsets_all"}, w |-> {"onsets_A"}, m |-> {}, imp |-> {}],
     [r |-> {"events", "onsets_all"}, w |-> {"onsets_B"}, m |-> {}, imp |-> {}],
     [r |-> {}, w |-> {"temporal_res"}, m |-> {}, imp |-> {}],
     [r |-> {"event_duration", "fmrisim", "onsets_A", "temporal_res", "total_time"}, w |-> {"stimfunc_A"}, m |-> {}, imp |-> {}],
     [r |-> {"event_duration", "fmrisim", "onsets_B", "temporal_res", "total_time"}, w |-> {"stimfunc_B"}, m |-> {}, imp |-> {}]
  >>,
  \* code cell 13, lines 356-370
  <<
     [r |-> {"fmrisim", "home", "np", "stimfunc_A", "stimfunc_B", "temporal_res", "tr"}, w |-> {}, m |-> {}, imp |-> {}],
     [r |-> {"fmrisim", "home", "stimfunc_A", "temporal_res"}, w |-> {}, m |-> {}, imp |-> {}],
     [r |-> {"fmrisim", "home", "stimfunc_B", "temporal_res"}, w |-> {}, m |-> {}, imp |-> {}]
  >>,
  \* code cell 14, lines 390-393
  <<
     [r |-> {"np", "pattern_A", "stimfunc_A", "voxels"}, w |-> {"weights_A"}, m |-> {"numpy.matlib"}, imp |-> {}],
     [r |-> {"np", "pattern_B", "stimfunc_B", "voxels"}, w |-> {"weights_B"}, m |-> {"numpy.matlib"}, imp |-> {}],
     [r |-> {"weights_A", "weights_B"}, w |-> {"weights_all"}, m |-> {}, imp |-> {}],
     [r |-> {"weights_all"}, w |-> {"weights_all"}, m |-> {}, imp |-> {}]
  >>,
  \* code cell 15, lines 413-417
  <<
     [r |-> {"fmrisim", "temporal_res", "tr", "weights_all"}, w |-> {"signal_func"}, m |-> {}, imp |-> {}]
  >>,
  \* code cell 16, lines 426-434
  <<
     [r |-> {"plt"}, w |-> {}, m |-> {}, imp |-> {}],
     [r |-> {"signal_func", "stats"}, w |-> {"response"}, m |-> {}, imp |-> {}],
     [r |-> {"plt"}, w |-> {}, m |-> {}, imp |-> {}],
     [r |-> {"plt", "stimfunc_A"}, w |-> {"Event_A"}, m |-> {}, imp |-> {}],
     [r |-> {"plt", "stimfunc_B"}, w |-> {"Event_B"}, m |-> {}, imp |-> {}],
     [r |-> {"plt", "response"}, w |-> {"Response"}, m |-> {}, imp |-> {}],
     [r |-> {"plt"}, w |-> {}, m |-> {}, imp |-> {}]
  >>,
  \* code cell 17, lines 454-456
  <<
     [r |-> {"fmrisim", "signal_func", "signal_volume"}, w |-> {"signal"}, m |-> {}, imp |-> {}]
  >>,
  \* code cell 18, lines 475-481
  <<
     [r |-> {"dim", "fmrisim", "mask", "noise_dict", "template", "tr", "weights_all"}, w |-> {"noise"}, m |-> {}, imp |-> {}]
  >>,
  \* code cell 19, lines 490-492
  <<
     [r |-> {"plt"}, w |-> {}, m |-> {}, imp |-> {}],
     [r |-> {"noise", "plt"}, w |-> {}, m |-> {}, imp |-> {}],
     [r |-> {"plt"}, w |-> {}, m |-> {}, imp |-> {}]
  >>,
  \* code cell 20, lines 510-527
  <<
     [r |-> {"dim", "fmrisim"}, w |-> {"low_spatial"}, m |-> {}, imp |-> {}],
     [r |-> {"dim", "fmrisim"}, w |-> {"high_spatial"}, m |-> {}, imp |-> {}],
     [r |-> {"plt"}, w |-> {}, m |-> {}, imp |-> {}],
     [r |-> {"plt"}, w |-> {}, m |-> {}, imp |-> {}],
     [r |-> {"plt"}, w |-> {}, m |-> {}, imp |-> {}],
     [r |-> {"low_spatial", "plt"}, w |-> {}, m |-> {}, imp |-> {}],
     [r |-> {"plt"}, w |-> {}, m |-> {}, imp |-> {}],
     [r |-> {"plt"}, w |-> {}, m |-> {}, imp |-> {}],
     [r |-> {"plt"}, w |-> {}, m |-> {}, imp |-> {}],
     [r |-> {"high_spatial", "plt"}, w |-> {}, m |-> {}, imp |-> {}],
     [r |-> {"plt"}, w |-> {}, m |-> {}, imp |-> {}]
  >>,
  \* code cell 21, lines 536-574
  <<
     [r |-> {"total_time", "tr"}, w |-> {"timepoints"}, m |-> {}, imp |-> {}],
     [r |-> {"fmrisim", "total_time", "tr"}, w |-> {"drift"}, m |-> {}, imp |-> {}],
     [r |-> {"fmrisim", "timepoints"}, w |-> {"autoreg"}, m |-> {}, imp |-> {}],
     [r |-> {"fmrisim", "timepoints"}, w |-> {"phys"}, m |-> {}, imp |-> {}],
     [r |-> {"fmrisim", "stimfunc_A", "tr"}, w |-> {"task"}, m |-> {}, imp |-> {}],
     [r |-> {"plt"}, w |-> {}, m |-> {}, imp |-> {}],
     [r |-> {"plt"}, w |-> {}, m |-> {}, imp |-> {}],
     [r |-> {"plt"}, w |-> {}, m |-> {}, imp |-> {}],
     [r |-> {"drift", "plt"}, w |-> {}, m |-> {}, imp |-> {}],
     [r |-> {"plt"}, w |-> {}, m |-> {}, imp |-> {}],
     [r |-> {"plt"}, w |-> {}, m |-> {}, imp |-> {}],
     [r |-> {"plt"}, w |-> {}, m |-> {}, imp |-> {}],
     [r |-> {"autoreg", "plt"}, w |-> {}, m |-> {}, imp |-> {}],
     [r |-> {"plt"}, w |-> {}, m |-> {}, imp |-> {}],
     [r |-> {"plt"}, w |-> {}, m |-> {}, imp |-> {}],
     [r |-> {"plt"}, w |-> {}, m |-> {}, imp |-> {}],
     [r |-> {"phys", "plt"}, w |-> {}, m |-> {}, imp |-> {}],
     [r |-> {"plt"}, w |-> {}, m |-> {}, imp |-> {}],
     [r |-> {"plt"}, w |-> {}, m |-> {}, imp |-> {}],
     [r |-> {"plt"}, w |-> {}, m |-> {}, imp |-> {}],
     [r |-> {"plt", "task"}, w |-> {}, m |-> {}, imp |-> {}],
     [r |-> {"plt"}, w |-> {}, m |-> {}, imp |-> {}],
     [r |-> {"plt"}, w |-> {}, m |-> {}, imp |-> {}]
  >>,
  \* code cell 22, lines 592-614
  <<
     [r |-> {"dim", "fmrisim"}, w |-> {"system"}, m |-> {}, imp |-> {}],
     [r |-> {"plt"}, w |-> {}, m |-> {}, imp |-> {}],
     [r |-> {"plt"}, w |-> {}, m |-> {}, imp |-> {}],
     [r |-> {"plt", "system"}, w |-> {}, m |-> {}, imp |-> {}],
     [r |-> {"plt"}, w |-> {}, m |-> {}, imp |-> {}],
     [r |-> {"plt"}, w |-> {}, m |-> {}, imp |-> {}],
     [r |-> {"plt"}, w |-> {}, m |-> {}, imp |-> {}],
     [r |-> {"plt"}, w |-> {}, m |-> {}, imp |-> {}],
     [r |-> {"plt", "system"}, w |-> {}, m |-> {}, imp |-> {}],
     [r |-> {"plt"}, w |-> {}, m |-> {}, imp |-> {}],
     [r |-> {"plt"}, w |-> {}, m |-> {}, imp |-> {}],
     [r |-> {"np", "plt", "system"}, w |-> {}, m |-> {}, imp |-> {}],
     [r |-> {"plt"}, w |-> {}, m |-> {}, imp |-> {}],
     [r |-> {"plt", "system"}, w |-> {}, m |-> {}, imp |-> {}],
     [r |-> {"plt"}, w |-> {}, m |-> {}, imp |-> {}],
     [r |-> {"plt"}, w |-> {}, m |-> {}, imp |-> {}],
     [r |-> {"np", "plt", "system"}, w |-> {}, m |-> {}, imp |-> {}]
  >>,
  \* code cell 23, lines 643-643
  <<
     [r |-> {"noise", "signal"}, w |-> {"brain"}, m |-> {}, imp |-> {}]
  >>,
  \* code cell 24, lines 672-682
  <<
     [r |-> {}, w |-> {"hrf_lag"}, m |-> {}, imp |-> {}],
     [r |-> {"coordinates", "feature_size"}, w |-> {"lb"}, m |-> {}, imp |-> {}],
     [r |-> {"coordinates", "feature_size"}, w |-> {"ub"}, m |-> {}, imp |-> {}],
     [r |-> {"brain", "hrf_lag", "lb", "onsets_A", "tr", "ub"}, w |-> {"trials_A"}, m |-> {}, imp |-> {}],
     [r |-> {"brain", "hrf_lag", "lb", "onsets_B", "tr", "ub"}, w |-> {"trials_B"}, m |-> {}, imp |-> {}],
     [r |-> {"trials_A", "voxels"}, w |-> {"trials_A"}, m |-> {}, imp |-> {}],
     [r |-> {"trials_B", "voxels"}, w |-> {"trials_B"}, m |-> {}, imp |-> {}]
  >>,
  \* code cell 25, lines 691-698
  <<
     [r |-> {"plt"}, w |-> {}, m |-> {}, imp |-> {}],
     [r |-> {"plt"}, w |-> {}, m |-> {}, imp |-> {}],
     [r |-> {"plt", "trials_A"}, w |-> {}, m |-> {}, imp |-> {}],
     [r |-> {"plt"}, w |-> {}, m |-> {}, imp |-> {}],
     [r |-> {"plt"}, w |-> {}, m |-> {}, imp |-> {}],
     [r |-> {"plt"}, w |-> {}, m |-> {}, imp |-> {}],
     [r |-> {"plt", "trials_B"}, w |-> {}, m |-> {}, imp |-> {}],
     [r |-> {"plt"}, w |-> {}, m |-> {}, imp |-> {}]
  >>,
  \* code cell 26, lines 716-723
  <<
     [r |-> {"np", "sp_distance", "trials_A", "trials_B"}, w |-> {"distance_matrix"}, m |-> {}, imp |-> {}],
     [r |-> {"manifold"}, w |-> {"mds"}, m |-> {}, imp |-> {}],
     [r |-> {"distance_matrix", "mds"}, w |-> {"coords"}, m |-> {}, imp |-> {}],
     [r |-> {"plt"}, w |-> {}, m |-> {}, imp |-> {}],
     [r |-> {"coords", "plt", "trials_A", "trials_B"}, w |-> {}, m |-> {}, imp |-> {}],
     [r |-> {"plt"}, w |-> {}, m |-> {}, imp |-> {}],
     [r |-> {"plt"}, w |-> {}, m |-> {}, imp |-> {}]
  >>,
  \* code cell 27, lines 741-745
  <<
     [r |-> {"np", "trials_A", "trials_B"}, w |-> {"mean_difference"}, m |-> {}, imp |-> {}],
     [r |-> {"mean_difference", "stats"}, w |-> {"ttest"}, m |-> {}, imp |-> {}],
     [r |-> {"mean_difference"}, w |-> {}, m |-> {}, imp |-> {}],
     [r |-> {"ttest"}, w |-> {}, m |-> {}, imp |-> {}]
  >>,
  \* code cell 28, lines 763-774
  <<
     [r |-> {"np", "trials_A", "trials_B"}, w |-> {"input_mat"}, m |-> {}, imp |-> {}],
     [r |-> {"trials_A", "trials_B"}, w |-> {"input_labels"}, m |-> {}, imp |-> {}],
     [r |-> {"input_labels", "input_mat", "sklearn"}, w |-> {"X_test", "X_train", "y_test", "y_train"}, m |-> {"sklearn.model_selection"}, imp |-> {}],
     [r |-> {"X_train", "sklearn", "y_train"}, w |-> {"clf"}, m |-> {"sklearn.svm"}, imp |-> {}],
     [r |-> {"X_test", "clf", "y_test"}, w |-> {"score"}, m |-> {}, imp |-> {}],
     [r |-> {"score"}, w |-> {}, m |-> {}, imp |-> {}]
  >>
>>

NCells == Len(Cells)

\* Submodules a package's own __init__ loads when the package is imported.
PackageSubmodules(mod) ==
    IF mod = "numpy" THEN {"numpy", "numpy.random"} ELSE {mod}

\* Run the statements of one cell from statement i on a namespace.
RECURSIVE ExecNames(_, _, _, _)
ExecNames(stmts, i, names, mods) ==
    IF i > Len(stmts) THEN [ns |-> names, loaded |-> mods, err |-> "none"]
    ELSE LET s == stmts[i] IN
         IF ~(s.r \subseteq names)
           THEN [ns |-> names, loaded |-> mods, err |-> "NameError"]
         ELSE IF ~(s.m \subseteq mods)
           THEN [ns |-> names, loaded |-> mods, err |-> "AttributeError"]
         ELSE ExecNames(stmts, i + 1, names \cup s.w,
                        mods \cup UNION {PackageSubmodules(x) : x \in s.imp})

RunCell(k) == ExecNames(Cells[k], 1, ns, loaded)

(***************************************************************************)
(* Literals of the notebook                                                *)
(***************************************************************************)
event_duration == 2
isi == 3
burn_in == 3
hrf_lag == 4
temporal_res == <<1, 1>>
CubeCentre == <<24, 24, 24>>
CubeSize == 3

(***************************************************************************)
(* Inputs of a run: the scan on disk                                       *)
(***************************************************************************)
SpatialShapes == {<<64, 64, 26>>, <<64, 64, 64>>}
TRZooms == {<<1, 2>>, <<1, 1>>, <<3, 2>>, <<2, 1>>, <<1500, 1>>}
Scans == [shape : {s \o <<n>> : s \in SpatialShapes, n \in 1..MaxVols},
          zoomT : TRZooms]

\* Modules that the imported libraries may or may not have loaded themselves.
SideModules == {"numpy.matlib"}

(***************************************************************************)
(* Pure computations of the cells                                          *)
(***************************************************************************)
\* cell 1.2: tr = dimsize[3]; if tr > 100: tr /= 1000
TRSeconds(zoom) ==
    IF RatLess(RatInt(100), zoom) THEN RatDiv(zoom, RatInt(1000)) ELSE zoom

\* cell 2.4: total_time = int(dim[3] * tr) + burn_in
TotalTime(vols, t) == PyInt(RatMul(RatInt(vols), t)) + burn_in

\* cell 2.4: events = int((total_time - 2 * (dur + isi)) / (2 * (dur + isi))) * 2
NumEventsFloor(T) ==
    ((T - ((event_duration + isi) * 2)) \div ((event_duration + isi) * 2)) * 2

NumEvents(T) ==
    TruncDiv(T - ((event_duration + isi) * 2), (event_duration + isi) * 2) * 2

\* np.linspace(start, stop, num), endpoint included
LinSpace(start, stop, num) ==
    IF num <= 0 THEN << >>
    ELSE IF num = 1 THEN <<RatInt(start)>>
    ELSE [i \in 1..num |->
            RatAdd(RatInt(start), Rat((i - 1) * (stop - start), num - 1))]

\* the outcomes of np.random.shuffle on a sequence of length n
Perms(n) == {p \in [1..n -> 1..n] : \A i, j \in 1..n : p[i] = p[j] => i = j}
Shuffled(s, p) == [i \in 1..Len(s) |-> s[p[i]]]

\* a[:k] and a[k:] for 0 <= k
Take(s, k) == SubSeq(s, 1, Min(k, Len(s)))
Drop(s, k) == SubSeq(s, Min(k, Len(s)) + 1, Len(s))

\* rows of a[::step], step >= 1
StrideRows(rows, step) == (rows + step - 1) \div step

\* numpy broadcasting of two axis lengths
Broadcastable(a, b) == a = b \/ a = 1 \/ b = 1

\* length of a[lo:hi] on an axis of length n (negative indices wrap)
SliceIndex(i, n) == IF i < 0 THEN Max(i + n, 0) ELSE Min(i, n)
SliceLen(lo, hi, n) == Max(SliceIndex(hi, n) - SliceIndex(lo, n), 0)

\* cell 4.1: lb = (coordinates - ((feature_size - 1) / 2)).astype('int')[0]
LowerBound(c, fs) == PyInt(RatSub(RatInt(c), Rat(fs - 1, 2)))

\* cell 4.1: ub = (coordinates + ((feature_size - 1) / 2) + 1).astype('int')[0]
UpperBoundNoPlusOne(c, fs) == PyInt(RatAdd(RatInt(c), Rat(fs - 1, 2)))

UpperBound(c, fs) ==
    PyInt(RatAdd(RatAdd(RatInt(c), Rat(fs - 1, 2)), RatInt(1)))

\* cell 4.1: (onsets + hrf_lag / tr).astype('int')
TrialIndex(o, t) == PyInt(RatAdd(o, RatDiv(RatInt(hrf_lag), t)))
TrialIndices(onsets, t) == [i \in 1..Len(onsets) |-> TrialIndex(onsets[i], t)]

\* voxels of brain[lb[0]:ub[0], lb[1]:ub[1], lb[2]:ub[2]]
ROICount(l, u, shape) ==
    SliceLen(l[1], u[1], shape[1]) * SliceLen(l[2], u[2], shape[2])
      * SliceLen(l[3], u[3], shape[3])

\* a.reshape(shape) is valid when the sizes agree
ReshapeOK(count, trials, vox) == count * trials = vox * trials

(***************************************************************************)
(* fmrisim library calls, by the shapes they return                        *)
(***************************************************************************)
\* generate_stimfunction: total_time * temporal_resolution rows
StimRows(T, res) == PyInt(RatMul(RatInt(T), res))

\* convolve_hrf: one row per stride = tr_duration * temporal_resolution rows
ConvolveRows(rows, tr_duration, temporal_resolution) ==
    LET stride == PyInt(RatMul(tr_duration, temporal_resolution))
    IN  rows \div stride

\* generate_noise: one time point per row of stimfunction_tr
NoiseTimePoints(stimfunction_tr_rows) == stimfunction_tr_rows

(***************************************************************************)
(* Spec: one run of the notebook, top to bottom                            *)
(***************************************************************************)
NoRat == <<0, 1>>
NoTriple == <<0, 0, 0>>

EffectIdle ==
    /\ signal_volume = << >>
    /\ template = << >>
    /\ noise_dict = [max_activity |-> 0, sfnr |-> 1]
    /\ signal_idxs = << >>
    /\ signal_change = << >>
    /\ idx_counter = 0

Init ==
    /\ pc = 1
    /\ fault = "none"
    /\ ns = {}
    /\ loaded = {}
    /\ nii \in Scans
    /\ dim = <<0, 0, 0, 0>>
    /\ tr = NoRat
    /\ coordinates = NoTriple
    /\ feature_size = 0
    /\ voxels = 0
    /\ total_time = 0
    /\ events = 0
    /\ onsets_all = << >>
    /\ onsets_A = << >>
    /\ onsets_B = << >>
    /\ weightsRows = 0
    /\ signalT = 0
    /\ noiseT = 0
    /\ brainT = 0
    /\ lb = NoTriple
    /\ ub = NoTriple
    /\ idx_A = << >>
    /\ idx_B = << >>
    /\ trialsShape_A = <<0, 0>>
    /\ EffectIdle

Ready(k) == pc = k /\ fault = "none" /\ RunCell(k).err = "none"

Advance(k) ==
    /\ pc' = k + 1
    /\ ns' = RunCell(k).ns
    /\ loaded' = RunCell(k).loaded

\* Statement j of cell k raises exc: the statements before it have run.
Raise(k, j, exc) ==
    /\ fault' = exc
    /\ ns' = ExecNames(SubSeq(Cells[k], 1, j - 1), 1, ns, loaded).ns
    /\ loaded' = loaded
    /\ UNCHANGED pc

\* A cell reads a name that is not bound, or an attribute that is not there.
CellNameFault ==
    /\ pc \in 1..NCells
    /\ fault = "none"
    /\ RunCell(pc).err # "none"
    /\ fault' = RunCell(pc).err
    /\ ns' = RunCell(pc).ns
    /\ loaded' = RunCell(pc).loaded
    /\ UNCHANGED pc
    /\ UNCHANGED <<nii, dim, tr, coordinates, feature_size, voxels, eventVars,
                   lengthVars, roiVars, effectVars>>

\* 1.1 Import necessary Python packages
CellImports ==
    /\ Ready(1)
    /\ \E side \in SUBSET SideModules :
          /\ pc' = 2
          /\ ns' = RunCell(1).ns
          /\ loaded' = RunCell(1).loaded \cup side
    /\ UNCHANGED <<fault, nii, dim, tr, coordinates, feature_size, voxels,
                   eventVars, lengthVars, roiVars, effectVars>>

\* Cells whose effect on the tracked state is only the names they bind:
\* loading, library calls whose values are not tracked, printing, plotting.
PlainCells == {2, 4, 5, 6, 8, 9, 11, 13, 16, 17, 19, 20, 22, 25, 26, 27, 28}

PlainCell ==
    /\ pc \in PlainCells
    /\ Ready(pc)
    /\ Advance(pc)
    /\ UNCHANGED <<fault, nii, dim, tr, coordinates, feature_size, voxels,
                   eventVars, lengthVars, roiVars, effectVars>>

\* 1.2 Specify participant dimensions and resolution
CellDims ==
    /\ Ready(3)
    /\ dim' = nii.shape
    /\ tr' = TRSeconds(nii.zoomT)
    /\ Advance(3)
    /\ UNCHANGED <<fault, nii, coordinates, feature_size, voxels, eventVars,
                   lengthVars, roiVars, effectVars>>

\* 2.1 Specify which voxels in the brain contain signal
CellSignalVolume ==
    /\ Ready(7)
    /\ coordinates' = CubeCentre
    /\ feature_size' = CubeSize
    /\ Advance(7)
    /\ UNCHANGED <<fault, nii, dim, tr, voxels, eventVars, lengthVars,
                   roiVars, effectVars>>

\* 2.3 Characterize signal for voxels
CellPatterns ==
    /\ Ready(10)
    /\ voxels' = feature_size * feature_size * feature_size
    /\ Advance(10)
    /\ UNCHANGED <<fault, nii, dim, tr, coordinates, feature_size, eventVars,
                   lengthVars, roiVars, effectVars>>

\* 2.4 Generate event time course
CellEvents ==
    /\ Ready(12)
    /\ LET T == TotalTime(dim[4], tr)
           n == NumEvents(T)
           half == TruncDiv(n, 2)
           all == LinSpace(burn_in, n * (event_duration + isi), n)
       IN  /\ total_time' = T
           /\ events' = n
           /\ IF n < 0
                THEN \* np.linspace: number of samples must be non-negative
                     /\ Raise(12, 6, "ValueError")
                     /\ UNCHANGED <<onsets_all, onsets_A, onsets_B>>
                ELSE /\ \E p \in Perms(Len(all)) :
                           onsets_all' = Shuffled(all, p)
                     /\ onsets_A' = Take(onsets_all', half)
                     /\ onsets_B' = Drop(onsets_all', half)
                     /\ Advance(12)
                     /\ UNCHANGED fault
    /\ UNCHANGED <<nii, dim, tr, coordinates, feature_size, voxels,
                   lengthVars, roiVars, effectVars>>

\* 2.6 Estimate the voxel weight for each event
CellWeights ==
    /\ Ready(14)
    /\ weightsRows' = StimRows(total_time, temporal_res)
    /\ Advance(14)
    /\ UNCHANGED <<fault, nii, dim, tr, coordinates, feature_size, voxels,
                   eventVars, signalT, noiseT, brainT, roiVars, effectVars>>

\* 2.7 Convolve each voxel's time course with the HRF
CellConvolve ==
    /\ Ready(15)
    /\ signalT' = ConvolveRows(weightsRows, tr, RatDiv(temporal_res, tr))
    /\ Advance(15)
    /\ UNCHANGED <<fault, nii, dim, tr, coordinates, feature_size, voxels,
                   eventVars, weightsRows, noiseT, brainT, roiVars,
                   effectVars>>

\* 3. Add noise to signal: stimfunction_tr = weights_all[::int(tr)]
CellNoise ==
    /\ Ready(18)
    /\ IF PyInt(tr) = 0
         THEN \* slice step cannot be zero
              /\ Raise(18, 1, "ValueError")
              /\ UNCHANGED noiseT
         ELSE /\ noiseT' = NoiseTimePoints(StrideRows(weightsRows, PyInt(tr)))
              /\ Advance(18)
              /\ UNCHANGED fault
    /\ UNCHANGED <<nii, dim, tr, coordinates, feature_size, voxels,
                   eventVars, weightsRows, signalT, brainT, roiVars,
                   effectVars>>

\* 3.1 Create temporal noise: range(0, total_time, int(tr)), a[::int(tr)]
CellTemporalNoise ==
    /\ Ready(21)
    /\ IF PyInt(tr) = 0
         THEN Raise(21, 1, "ValueError")
         ELSE Advance(21) /\ UNCHANGED fault
    /\ UNCHANGED <<nii, dim, tr, coordinates, feature_size, voxels,
                   eventVars, lengthVars, roiVars, effectVars>>

\* 3.4 Combine signal and noise: brain = signal + noise
CellCombine ==
    /\ Ready(23)
    /\ IF Broadcastable(signalT, noiseT)
         THEN /\ brainT' = Max(signalT, noiseT)
              /\ Advance(23)
              /\ UNCHANGED fault
         ELSE \* operands could not be broadcast together
              /\ Raise(23, 1, "ValueError")
              /\ UNCHANGED brainT
    /\ UNCHANGED <<nii, dim, tr, coordinates, feature_size, voxels,
                   eventVars, weightsRows, signalT, noiseT, roiVars,
                   effectVars>>

\* 4.1 Pull out data for each trial
CellTrials ==
    /\ Ready(24)
    /\ LET l == [a \in 1..3 |-> LowerBound(coordinates[a], feature_size)]
           u == [a \in 1..3 |-> UpperBound(coordinates[a], feature_size)]
           iA == TrialIndices(onsets_A, tr)
           iB == TrialIndices(onsets_B, tr)
           count == ROICount(l, u, dim)
           inRange(s) == \A i \in 1..Len(s) : s[i] < brainT
       IN  /\ lb' = l
           /\ ub' = u
           /\ idx_A' = iA
           /\ idx_B' = iB
           /\ trialsShape_A' = <<count, Len(iA)>>
           /\ IF ~(inRange(iA) /\ inRange(iB))
                THEN Raise(24, 4, "IndexError")
              ELSE IF ~(ReshapeOK(count, Len(iA), voxels)
                        /\ ReshapeOK(count, Len(iB), voxels))
                THEN Raise(24, 6, "ValueError")
              ELSE Advance(24) /\ UNCHANGED fault
    /\ UNCHANGED <<nii, dim, tr, coordinates, feature_size, voxels,
                   eventVars, lengthVars, effectVars>>

Next ==
    \/ CellNameFault
    \/ CellImports
    \/ PlainCell
    \/ CellDims
    \/ CellSignalVolume
    \/ CellPatterns
    \/ CellEvents
    \/ CellWeights
    \/ CellConvolve
    \/ CellNoise
    \/ CellTemporalNoise
    \/ CellCombine
    \/ CellTrials

Spec == Init /\ [][Next]_vars

(***************************************************************************)
(* Properties of the run                                                   *)
(***************************************************************************)
Range(s) == {s[i] : i \in 1..Len(s)}

\* C1: run once from top to bottom, no cell reads a name that is still
\* unbound or reaches a module that has not been imported.
C1_NoUndefinedRead == fault \notin {"NameError", "AttributeError"}

\* C2: for every total_time >= burn_in and every outcome of the shuffle,
\* events is an even non-negative integer, onsets_A and onsets_B hold
\* events/2 onsets each, share none, and together are exactly the onsets of
\* onsets_all.
C2_ShuffleSplitsEvents ==
    /\ "total_time" \in ns => total_time >= burn_in
    /\ "events" \in ns => events >= 0 /\ events % 2 = 0
    /\ "onsets_B" \in ns =>
          /\ Len(onsets_all) = events
          /\ Len(onsets_A) * 2 = events
          /\ Len(onsets_B) * 2 = events
          /\ Range(onsets_A) \cap Range(onsets_B) = {}
          /\ Range(onsets_A) \cup Range(onsets_B) = Range(onsets_all)
          /\ Cardinality(Range(onsets_all)) = events
          /\ Range(onsets_all) =
               Range(LinSpace(burn_in, events * (event_duration + isi), events))

\* C2 witness: four events were shuffled out of their order and split.
C2_Witness ==
    /\ "onsets_B" \in ns
    /\ events = 4
    /\ onsets_A # Take(LinSpace(burn_in, events * (event_duration + isi),
                                events), 2)

\* C3: for every TR of the input scan, signal and noise have the same number
\* of time points, so brain = signal + noise is an element-by-element sum.
C3_SignalNoiseSameLength ==
    ("signal" \in ns /\ "noise" \in ns) => signalT = noiseT

\* C4: for every onset o and every TR, the volume taken for the trial,
\* int(o + hrf_lag / tr), is acquired between o + 4 s and o + 6 s.
AtPeak(o, idx) ==
    LET acquired == RatMul(RatInt(idx), tr)
    IN  /\ RatLeq(RatAdd(o, RatInt(4)), acquired)
        /\ RatLeq(acquired, RatAdd(o, RatInt(6)))

C4_TrialIndexAtPeak ==
    "trials_B" \in ns =>
        /\ \A i \in 1..Len(onsets_A) : AtPeak(onsets_A[i], idx_A[i])
        /\ \A i \in 1..Len(onsets_B) : AtPeak(onsets_B[i], idx_B[i])

(***************************************************************************)
(* SpecROI: the ROI bounds, slice and reshape of cell 4.1, statement by    *)
(* statement, for every small volume, cube centre inside it and cube size. *)
(* pc is the number of the next statement of the cell.                     *)
(***************************************************************************)
Cube(n) == n * n * n

ROIInputs ==
    {in \in [shape : [1..3 -> 2..MaxDim], centre : [1..3 -> 0..(MaxDim - 1)],
             size : 1..MaxFeature, trials : 0..MaxTrials] :
        \A a \in 1..3 : in.centre[a] < in.shape[a]}

InitROI ==
    /\ pc = 2
    /\ fault = "none"
    /\ ns = {"brain", "coordinates", "feature_size", "voxels", "onsets_A",
             "tr", "hrf_lag"}
    /\ loaded = {}
    /\ nii = [shape |-> <<0, 0, 0, 0>>, zoomT |-> <<1, 1>>]
    /\ tr = <<1, 1>>
    /\ \E in \in ROIInputs :
          /\ dim = in.shape \o <<1>>
          /\ coordinates = in.centre
          /\ feature_size = in.size
          /\ voxels = Cube(in.size)
          /\ idx_A = [i \in 1..in.trials |-> 0]
    /\ total_time = 0
    /\ events = 0
    /\ onsets_all = << >>
    /\ onsets_A = << >>
    /\ onsets_B = << >>
    /\ weightsRows = 1
    /\ signalT = 1
    /\ noiseT = 1
    /\ brainT = 1
    /\ lb = NoTriple
    /\ ub = NoTriple
    /\ idx_B = << >>
    /\ trialsShape_A = <<0, 0>>
    /\ EffectIdle

roiFrame == <<loaded, nii, dim, tr, coordinates, feature_size, voxels,
              eventVars, lengthVars, idx_A, idx_B, effectVars>>

\* lb = (coordinates - ((feature_size - 1) / 2)).astype('int')[0]
ROILower ==
    /\ pc = 2 /\ fault = "none"
    /\ lb' = [a \in 1..3 |-> LowerBound(coordinates[a], feature_size)]
    /\ pc' = 3
    /\ ns' = ns \cup {"lb"}
    /\ UNCHANGED <<fault, ub, trialsShape_A>>
    /\ UNCHANGED roiFrame

\* ub = (coordinates + ((feature_size - 1) / 2) + 1).astype('int')[0]
ROIUpper ==
    /\ pc = 3 /\ fault = "none"
    /\ ub' = [a \in 1..3 |-> UpperBound(coordinates[a], feature_size)]
    /\ pc' = 4
    /\ ns' = ns \cup {"ub"}
    /\ UNCHANGED <<fault, lb, trialsShape_A>>
    /\ UNCHANGED roiFrame

\* trials_A = brain[lb[0]:ub[0], lb[1]:ub[1], lb[2]:ub[2], <indices>]
ROISlice ==
    /\ pc = 4 /\ fault = "none"
    /\ trialsShape_A' = <<ROICount(lb, ub, dim), Len(idx_A)>>
    /\ pc' = 6
    /\ ns' = ns \cup {"trials_A"}
    /\ UNCHANGED <<fault, lb, ub>>
    /\ UNCHANGED roiFrame

\* trials_A = trials_A.reshape((voxels, trials_A.shape[3]))
ROIReshape ==
    /\ pc = 6 /\ fault = "none"
    /\ IF ReshapeOK(trialsShape_A[1], trialsShape_A[2], voxels)
         THEN /\ trialsShape_A' = <<voxels, trialsShape_A[2]>>
              /\ pc' = 8
              /\ UNCHANGED fault
         ELSE \* cannot reshape array
              /\ fault' = "ValueError"
              /\ UNCHANGED <<pc, trialsShape_A>>
    /\ UNCHANGED <<ns, lb, ub>>
    /\ UNCHANGED roiFrame

NextROI == ROILower \/ ROIUpper \/ ROISlice \/ ROIReshape

SpecROI == InitROI /\ [][NextROI]_vars

CentreAtLeastSize == \A a \in 1..3 : coordinates[a] >= feature_size

BoundsFrameCentre ==
    \A a \in 1..3 : /\ ub[a] - lb[a] = feature_size
                    /\ lb[a] <= coordinates[a]
                    /\ coordinates[a] < ub[a]

SliceIsCube ==
    /\ pc = 6 => trialsShape_A[1] = Cube(feature_size)
    /\ pc >= 6 => fault = "none"

\* C5 as stated: for every feature_size >= 1 and every centre c >=
\* feature_size, ub - lb = feature_size and lb <= c < ub on each axis, the
\* slice holds feature_size ** 3 voxels and the reshape is valid.
C5_ROISelectsCube ==
    CentreAtLeastSize =>
        /\ pc >= 4 => BoundsFrameCentre
        /\ SliceIsCube

\* C5 amended: for every feature_size >= 1 and every centre c >=
\* feature_size, ub - lb = feature_size and lb <= c < ub on each axis; when
\* also ub does not exceed the length of the volume on any axis, the slice
\* holds feature_size ** 3 voxels and the reshape is valid.
C5_ROISelectsCubeInsideVolume ==
    CentreAtLeastSize =>
        /\ pc >= 4 => BoundsFrameCentre
        /\ (pc >= 4 /\ \A a \in 1..3 : ub[a] <= dim[a]) => SliceIsCube

\* C5 witness: a cube of even size, inside the volume, has been sliced and
\* reshaped for at least one trial.
C5_Witness ==
    /\ pc = 8
    /\ CentreAtLeastSize
    /\ feature_size % 2 = 0
    /\ \A a \in 1..3 : ub[a] <= dim[a]
    /\ trialsShape_A = <<Cube(feature_size), 1>>

(***************************************************************************)
(* SpecEffect: the effect-size cell 2.2 over every small 0/1 signal        *)
(* volume and template.  pc: 1 before the cell, 2 in the loop, 3 after.    *)
(***************************************************************************)
effect_size == 1

GridShape == <<2, 2, MaxGridZ>>
GridX == GridShape[1]
GridY == GridShape[2]
GridZ == GridShape[3]
GridVoxels == (0..(GridX - 1)) \X (0..(GridY - 1)) \X (0..(GridZ - 1))
GridCount == GridX * GridY * GridZ

\* template values (mean activity scaled into (0, 1]) and noise parameters
TemplateValues == {<<1, 2>>, <<1, 1>>}
NoiseDicts == {[max_activity |-> 1, sfnr |-> 1],
               [max_activity |-> 3, sfnr |-> 2]}

\* the voxel at position f of the flattened volume, last axis fastest
VoxelAtFortran(f) == <<f % GridX, (f \div GridX) % GridY, f \div (GridX * GridY)>>

VoxelAt(f) == <<f \div (GridY * GridZ), (f \div GridZ) % GridY, f % GridZ>>

\* np.where(vol == 1): the matching voxels in flattened order
RECURSIVE WhereOnes(_, _)
WhereOnes(vol, f) ==
    IF f >= GridCount THEN << >>
    ELSE (IF vol[VoxelAt(f)] = 1 THEN <<VoxelAt(f)>> ELSE << >>)
           \o WhereOnes(vol, f + 1)

\* int(vol.sum())
RECURSIVE VolumeSum(_, _)
VolumeSum(vol, f) ==
    IF f >= GridCount THEN 0 ELSE vol[VoxelAt(f)] + VolumeSum(vol, f + 1)

\* temporal_sd = template * noise_dict['max_activity'] / noise_dict['sfnr']
TemporalSD(v) ==
    RatDiv(RatMul(template[v], RatInt(noise_dict.max_activity)),
           RatInt(noise_dict.sfnr))

InitEffect ==
    /\ pc = 1
    /\ fault = "none"
    /\ ns = {"template", "noise_dict", "signal_volume", "np"}
    /\ loaded = {}
    /\ nii = [shape |-> <<GridX, GridY, GridZ, 1>>, zoomT |-> <<1, 1>>]
    /\ dim = <<GridX, GridY, GridZ, 1>>
    /\ tr = <<1, 1>>
    /\ coordinates = NoTriple
    /\ feature_size = 0
    /\ voxels = 0
    /\ total_time = 0
    /\ events = 0
    /\ onsets_all = << >>
    /\ onsets_A = << >>
    /\ onsets_B = << >>
    /\ weightsRows = 0
    /\ signalT = 0
    /\ noiseT = 0
    /\ brainT = 0
    /\ lb = NoTriple
    /\ ub = NoTriple
    /\ idx_A = << >>
    /\ idx_B = << >>
    /\ trialsShape_A = <<0, 0>>
    /\ signal_volume \in [GridVoxels -> {0, 1}]
    /\ template \in [GridVoxels -> TemplateValues]
    /\ noise_dict \in NoiseDicts
    /\ signal_idxs = << >>
    /\ signal_change = << >>
    /\ idx_counter = 0

effectFrame == <<fault, loaded, nii, dim, tr, coordinates, feature_size,
                 voxels, eventVars, lengthVars, roiVars, signal_volume,
                 template, noise_dict>>

\* effect_size, temporal_sd, signal_idxs, signal_change = np.zeros(...)
EffectSetup ==
    /\ pc = 1
    /\ signal_idxs' = WhereOnes(signal_volume, 0)
    /\ signal_change' = [i \in 1..VolumeSum(signal_volume, 0) |-> NoRat]
    /\ idx_counter' = 0
    /\ pc' = 2
    /\ ns' = ns \cup {"effect_size", "temporal_sd", "signal_idxs",
                      "signal_change"}
    /\ UNCHANGED effectFrame

\* one pass of: for idx_counter in list(range(0, int(signal_volume.sum())))
EffectIterate ==
    /\ pc = 2
    /\ idx_counter < VolumeSum(signal_volume, 0)
    /\ LET v == signal_idxs[idx_counter + 1]
       IN  signal_change' =
             [signal_change EXCEPT
                ![idx_counter + 1] = RatMul(RatInt(effect_size), TemporalSD(v))]
    /\ idx_counter' = idx_counter + 1
    /\ ns' = ns \cup {"idx_counter", "x", "y", "z"}
    /\ UNCHANGED <<pc, signal_idxs>>
    /\ UNCHANGED effectFrame

\* the range is exhausted
EffectLoopEnd ==
    /\ pc = 2
    /\ idx_counter >= VolumeSum(signal_volume, 0)
    /\ pc' = 3
    /\ UNCHANGED <<ns, signal_idxs, signal_change, idx_counter>>
    /\ UNCHANGED effectFrame

NextEffect == EffectSetup \/ EffectIterate \/ EffectLoopEnd

SpecEffect == InitEffect /\ [][NextEffect]_vars

SignalVoxels == {v \in GridVoxels : signal_volume[v] = 1}

\* u comes before v in np.where order (first axis slowest)
Before(u, v) ==
    \/ u[1] < v[1]
    \/ u[1] = v[1] /\ u[2] < v[2]
    \/ u[1] = v[1] /\ u[2] = v[2] /\ u[3] < v[3]

RankOf(v) == Cardinality({u \in SignalVoxels : Before(u, v)}) + 1

====
